---------------------------- MODULE Spec2Model ----------------------------
(***************************************************************************)
(* The job-lifecycle state machine of podcast-to-text: submit.py creates   *)
(* remote transcription jobs and records them in pending_episodes,         *)
(* query.py reconciles pending jobs into processed_episodes, db.py is the  *)
(* SQLite store both work on.                                              *)
(*                                                                         *)
(* A table is the sequence of its rows in rowid order.  Every call that    *)
(* can raise (a remote request, a store statement, a file write) is one    *)
(* step of the process that makes it, and may raise.                       *)
(***************************************************************************)
EXTENDS Integers, Sequences, FiniteSets, TLC

(***************************************************************************)
(* Bounds of the model.                                                    *)
(***************************************************************************)
\* Jobs the remote service accepts before it answers every create with an error.
MaxJobs == 2
\* Exceptions raised by calls that could also have succeeded.
MaxFaults == 1
\* Characters of a drawn title, beside the padding that brings it to the cap.
MaxTitleLen == 2

None == "None"

(***************************************************************************)
(* Strings that the code takes apart are sequences of characters.          *)
(***************************************************************************)
IllegalChars == {"<", ">", ":", "\"", "/", "\\", "|", "?", "*"}
ControlChars == {"\t", "\n"}
StripChars == {" ", "."}
MaxNameLen == 200
Untitled == <<"u", "n", "t", "i", "t", "l", "e", "d">>

\* The characters of chars are dropped from the left end, from the right end.
lstrip(s) ==
    LET kept == {i \in 1..Len(s) : s[i] \notin StripChars} IN
    IF kept = {} THEN <<>>
    ELSE SubSeq(s, CHOOSE i \in kept : \A j \in kept : i <= j, Len(s))

rstrip(s) ==
    LET kept == {i \in 1..Len(s) : s[i] \notin StripChars} IN
    IF kept = {} THEN <<>>
    ELSE SubSeq(s, 1, CHOOSE i \in kept : \A j \in kept : i >= j)

sanitize_filename(name) ==
    LET a == SelectSeq(name, LAMBDA ch : ch \notin IllegalChars)
        b == SelectSeq(a, LAMBDA ch : ch \notin ControlChars)
        c == IF Len(b) > MaxNameLen THEN SubSeq(b, 1, MaxNameLen) ELSE b
        d == rstrip(lstrip(c))
    IN  IF d = <<>> THEN Untitled ELSE d

\* OUTPUT_DIR / channel / date_str / safe_title
get_output_path(base_dir, channel, date_str, title) ==
    <<base_dir, channel, date_str, sanitize_filename(title)>>

OUTPUT_DIR == "output"

(***************************************************************************)
(* The feed and the channel configuration: inputs of the submitter.        *)
(***************************************************************************)
\* The entries every feed serves, most recent first.
FeedEntries ==
    << [id |-> "e1", title |-> <<"E", "p", ":", "1">>, audio_url |-> "a1",
        published |-> "2024-01-01", duration |-> "3600"],
       [id |-> "e2", title |-> <<"?", ".">>, audio_url |-> "a2",
        published |-> "2024-01-02", duration |-> None] >>

parse_feed(url, max_episodes) ==
    SubSeq(FeedEntries, 1, IF max_episodes < Len(FeedEntries)
                           THEN max_episodes ELSE Len(FeedEntries))

\* What load_config returns: the channels of config/channels.yaml.
ConfigChannels ==
    << [name |-> "c1", url |-> "f1", language |-> "auto", max_episodes |-> 2],
       [name |-> "c2", url |-> "f2", language |-> "en-US", max_episodes |-> 1] >>

ChannelNames == {ConfigChannels[i].name : i \in 1..Len(ConfigChannels)}
EpisodeIds == {FeedEntries[i].id : i \in 1..Len(FeedEntries)}
Identities == EpisodeIds \X ChannelNames

(***************************************************************************)
(* db.py: the statements of class Database, on tables as row sequences.    *)
(***************************************************************************)
SameKey(r, episode_id, channel) ==
    r.episode_id = episode_id /\ r.channel = channel

\* Mutant of InsertOrReplace: a plain INSERT into a table without the
\* UNIQUE constraint.
InsertOrReplacePlain(rows, row) == Append(rows, row)

\* INSERT OR REPLACE under UNIQUE(episode_id, channel): the conflicting rows
\* are deleted, the new row gets a fresh rowid and so comes last.
InsertOrReplace(rows, row) ==
    Append(SelectSeq(rows, LAMBDA r : ~SameKey(r, row.episode_id, row.channel)),
           row)

\* Mutants of is_processed: the status is not looked at; nothing is found;
\* the rows of status failed are the ones found.
is_processedAnyStatus(rows, episode_id, channel) ==
    \E i \in 1..Len(rows) : SameKey(rows[i], episode_id, channel)
is_processedNever(rows, episode_id, channel) == FALSE
is_processedFailed(rows, episode_id, channel) ==
    \E i \in 1..Len(rows) :
        SameKey(rows[i], episode_id, channel) /\ rows[i].status = "failed"

\* SELECT 1 ... WHERE episode_id = ? AND channel = ? AND status = 'success'
is_processed(rows, episode_id, channel) ==
    \E i \in 1..Len(rows) :
        SameKey(rows[i], episode_id, channel) /\ rows[i].status = "success"

\* Mutant of mark_processed: a plain INSERT, nothing is replaced.
mark_processedPlain(rows, episode_id, channel, title, output_path, status) ==
    Append(rows, [episode_id |-> episode_id, channel |-> channel,
                  title |-> title, output_path |-> output_path,
                  status |-> status])

\* The rowid and processed_at, which nothing here reads back, are left out.
mark_processed(rows, episode_id, channel, title, output_path, status) ==
    InsertOrReplace(rows, [episode_id |-> episode_id, channel |-> channel,
                           title |-> title, output_path |-> output_path,
                           status |-> status])

\* Mutants of is_pending: the channel is not looked at; nothing is found.
is_pendingAnyChannel(rows, episode_id, channel) ==
    \E i \in 1..Len(rows) : rows[i].episode_id = episode_id
is_pendingNever(rows, episode_id, channel) == FALSE

is_pending(rows, episode_id, channel) ==
    \E i \in 1..Len(rows) : SameKey(rows[i], episode_id, channel)

\* Mutant of mark_pending: a plain INSERT, nothing is replaced.
mark_pendingPlain(rows, episode, channel, transcription_id, t) ==
    Append(rows, [episode_id |-> episode.id, channel |-> channel,
                           title |-> episode.title,
                           audio_url |-> episode.audio_url,
                           transcription_id |-> transcription_id,
                           submitted_at |-> t,
                           published |-> episode.published,
                           duration |-> episode.duration])

mark_pending(rows, episode, channel, transcription_id, t) ==
    InsertOrReplace(rows, [episode_id |-> episode.id, channel |-> channel,
                           title |-> episode.title,
                           audio_url |-> episode.audio_url,
                           transcription_id |-> transcription_id,
                           submitted_at |-> t,
                           published |-> episode.published,
                           duration |-> episode.duration])

\* The PendingEpisode objects of the SELECT, in rowid order.
get_pending(rows, channel) ==
    IF channel # None
    THEN SelectSeq(rows, LAMBDA r : r.channel = channel)
    ELSE rows

\* Mutant of remove_pending: the WHERE clause is negated.
remove_pendingOther(rows, episode_id, channel) ==
    SelectSeq(rows, LAMBDA r : SameKey(r, episode_id, channel))

remove_pending(rows, episode_id, channel) ==
    SelectSeq(rows, LAMBDA r : ~SameKey(r, episode_id, channel))

\* get_stats: SELECT channel, status, COUNT(*) ... GROUP BY channel, status,
\* a channel without rows has no entry; SELECT COUNT(*) FROM pending_episodes.
get_stats(processed_rows, pending_rows) ==
    LET Count(c, status) ==
          Cardinality({i \in 1..Len(processed_rows) :
                         /\ processed_rows[i].channel = c
                         /\ processed_rows[i].status = status})
        channels == {processed_rows[i].channel : i \in 1..Len(processed_rows)}
    IN  [processed |-> [c \in channels |->
                          [success |-> Count(c, "success"),
                           failed |-> Count(c, "failed")]],
         pending |-> Len(pending_rows)]

\* The rows of a table for one identity.
RowsOf(rows, id) == SelectSeq(rows, LAMBDA r : SameKey(r, id[1], id[2]))


(***************************************************************************)
(* State.                                                                  *)
(***************************************************************************)
VARIABLES
    pending_episodes,    \* table pending_episodes, rows in rowid order
    processed_episodes,  \* table processed_episodes, rows in rowid order
    azure,               \* the remote jobs; a job's handle is its index
    files,               \* the artifacts under OUTPUT_DIR
    faults,              \* exceptions raised so far by calls that could succeed
    sub,                 \* the invocations of submit.py
    poll                 \* the invocation of query.py

vars == <<pending_episodes, processed_episodes, azure, files, faults,
          sub, poll>>

SubmitterIds == {"s1", "s2"}

\* The store and the service as an item's handling found them.  A process
\* keeps it with the item; only the properties read it.
Snapshot ==
    [pending |-> pending_episodes, processed |-> processed_episodes,
     azure |-> azure]
NoSnapshot == [pending |-> <<>>, processed |-> <<>>, azure |-> <<>>]

\* No episode taken up yet.
NoItem == <<>>

\* The locals of an invocation of submit.py.  item is the identity of the
\* episode of the current iteration, calls the calls made for it so far,
\* log and raised what its handling ended with.
SubIdle ==
    [pc |-> "idle", mode |-> None, channels |-> <<>>, ci |-> 0,
     episodes |-> <<>>, ei |-> 0, item |-> NoItem, transcription_id |-> 0,
     submitted |-> 0, skipped |-> 0, log |-> None, raised |-> None,
     calls |-> <<>>, pre |-> NoSnapshot]

NoPending ==
    [episode_id |-> None, channel |-> None, title |-> <<>>, audio_url |-> None,
     transcription_id |-> 0, submitted_at |-> 0, published |-> None,
     duration |-> None]
NoCounts == [completed |-> 0, still_running |-> 0, failed |-> 0]

\* The locals of the invocation of query.py.  pending is the job of the
\* current iteration, calls the calls made for it so far, log and raised
\* what its reconciliation ended with, counts the counters before it.
PollIdle ==
    [pc |-> "idle", pending_list |-> <<>>, idx |-> 0, pending |-> NoPending,
     status |-> None, branch |-> None, segments |-> <<>>, output_path |-> <<>>,
     completed |-> 0, still_running |-> 0, failed |-> 0,
     log |-> None, raised |-> None, calls |-> <<>>, pre |-> NoSnapshot,
     counts |-> NoCounts]

Init ==
    /\ pending_episodes = <<>>
    /\ processed_episodes = <<>>
    /\ azure = <<>>
    /\ files = {}
    /\ faults = 0
    /\ sub = [p \in SubmitterIds |-> SubIdle]
    /\ poll = PollIdle

\* datetime.now(): the clock ticks whenever the service accepts a job, so the
\* rows written for two jobs never carry the same time.
now == Len(azure) + 1

AllIdle == poll.pc = "idle" /\ \A p \in SubmitterIds : sub[p].pc = "idle"

\* A call that could have succeeded raises: allowed while the budget lasts.
MayRaise == faults < MaxFaults

(***************************************************************************)
(* submit.py                                                               *)
(***************************************************************************)
CurChannel(s) == s.channels[s.ci]
CurEpisode(s) == s.episodes[s.ei]

\* submit.main with --config: process_config_file starts on the first channel.
StartConfig(p) ==
    /\ sub[p].pc = "idle"
    /\ sub' = [sub EXCEPT ![p] =
                 [SubIdle EXCEPT !.pc = "next", !.mode = "config",
                                 !.channels = ConfigChannels, !.ci = 1,
                                 !.episodes = parse_feed(ConfigChannels[1].url,
                                                 ConfigChannels[1].max_episodes),
                                 !.ei = 1]]
    /\ UNCHANGED <<pending_episodes, processed_episodes, azure, files, faults,
                   poll>>

\* submit.main with a URL: process_single_rss takes the latest episode only.
StartSingle(p, channel_name) ==
    /\ sub[p].pc = "idle"
    /\ LET ch == [name |-> channel_name, url |-> "f", language |-> "auto",
                  max_episodes |-> 1]
       IN sub' = [sub EXCEPT ![p] =
                    [SubIdle EXCEPT !.pc = "next", !.mode = "single",
                                    !.channels = <<ch>>, !.ci = 1,
                                    !.episodes = parse_feed(ch.url, 1),
                                    !.ei = 1]]
    /\ UNCHANGED <<pending_episodes, processed_episodes, azure, files, faults,
                   poll>>

\* for episode in episodes: there is one more episode of the channel.
HasEpisode(s) == s.pc = "next" /\ s.ei <= Len(s.episodes)

\* for channel in channels: the channel's episodes are done, the next
\* channel's feed is parsed.
NextChannel(p) ==
    LET s == sub[p] IN
    /\ s.pc = "next"
    /\ s.ei > Len(s.episodes)
    /\ s.ci < Len(s.channels)
    /\ sub' = [sub EXCEPT ![p] =
                 [s EXCEPT !.ci = s.ci + 1,
                           !.episodes = parse_feed(s.channels[s.ci + 1].url,
                                                   s.channels[s.ci + 1].max_episodes),
                           !.ei = 1]]
    /\ UNCHANGED <<pending_episodes, processed_episodes, azure, files, faults,
                   poll>>

\* return submitted, skipped: the invocation ends.
SubmitReturn(p) ==
    LET s == sub[p] IN
    /\ s.pc = "next"
    /\ s.ei > Len(s.episodes)
    /\ s.ci >= Len(s.channels)
    /\ sub' = [sub EXCEPT ![p] = SubIdle]
    /\ UNCHANGED <<pending_episodes, processed_episodes, azure, files, faults,
                   poll>>

\* The submitter's record as it takes up the next episode.
TakeEpisode(s) ==
    [s EXCEPT !.item = <<CurEpisode(s).id, CurChannel(s).name>>,
              !.transcription_id = 0, !.calls = <<>>, !.raised = None,
              !.log = None, !.pre = Snapshot]

\* The submitter's record after one more call for the current episode.
Called(s, call) == [s EXCEPT !.calls = Append(s.calls, call)]

\* The submitter's record once it is done with the current episode.
EpisodeDone(s, log, raised) ==
    [s EXCEPT !.pc = "next", !.ei = s.ei + 1, !.log = log, !.raised = raised]

\* except Exception of the channel's try: the rest of the channel is dropped.
ChannelFailed(s, raised) ==
    [s EXCEPT !.pc = "next", !.ei = Len(s.episodes) + 1,
              !.log = "Error processing channel", !.raised = raised]

\* A store call outside the inner try raises: in process_config_file the
\* channel's except clause takes it, in process_single_rss nothing does and
\* the invocation dies.
StoreRaisesInCheck(p, at) ==
    LET s == IF at = "is_processed" THEN TakeEpisode(sub[p]) ELSE sub[p] IN
    /\ \/ at = "is_processed" /\ HasEpisode(sub[p])
       \/ at = "is_pending" /\ sub[p].pc = "is_pending"
    /\ MayRaise
    /\ faults' = faults + 1
    /\ sub' = [sub EXCEPT ![p] =
                 IF s.mode = "config"
                 THEN ChannelFailed(Called(s, at), at)
                 ELSE SubIdle]
    /\ UNCHANGED <<pending_episodes, processed_episodes, azure, files, poll>>

\* The next episode is taken up: if db.is_processed(episode.id, channel.name)
CheckProcessed(p) ==
    LET s == Called(TakeEpisode(sub[p]), "is_processed") IN
    /\ HasEpisode(sub[p])
    /\ sub' = [sub EXCEPT ![p] =
         IF is_processed(processed_episodes, s.item[1], s.item[2])
         THEN [EpisodeDone(s, "Skipping (done)", None)
                 EXCEPT !.skipped = s.skipped + 1]
         ELSE [s EXCEPT !.pc = "is_pending"]]
    /\ UNCHANGED <<pending_episodes, processed_episodes, azure, files, faults,
                   poll>>

\* if db.is_pending(episode.id, channel.name)
CheckPending(p) ==
    LET s == Called(sub[p], "is_pending") IN
    /\ s.pc = "is_pending"
    /\ sub' = [sub EXCEPT ![p] =
         IF is_pending(pending_episodes, s.item[1], s.item[2])
         THEN [EpisodeDone(s, "Skipping (pending)", None)
                 EXCEPT !.skipped = s.skipped + 1]
         ELSE [s EXCEPT !.pc = "submit"]]
    /\ UNCHANGED <<pending_episodes, processed_episodes, azure, files, faults,
                   poll>>

\* transcription_id = submit_transcription(...): the POST creates the job.
\* item notes the episode the job was created for; only the properties
\* read it.
SubmitTranscription(p) ==
    LET s == Called(sub[p], "submit_transcription") IN
    /\ s.pc = "submit"
    /\ Len(azure) < MaxJobs
    /\ azure' = Append(azure, [status |-> "Active", result |-> <<>>,
                               item |-> s.item])
    /\ sub' = [sub EXCEPT ![p] =
                 [s EXCEPT !.pc = "mark_pending",
                           !.transcription_id = Len(azure) + 1]]
    /\ UNCHANGED <<pending_episodes, processed_episodes, files, faults, poll>>

\* Mutant of SubmitTranscriptionRaises: the pending row is written before the
\* job is created.
SubmitTranscriptionRaisesAfterWrite(p) ==
    LET s == Called(sub[p], "submit_transcription") IN
    /\ s.pc = "submit"
    /\ \/ MayRaise /\ faults' = faults + 1
       \/ Len(azure) >= MaxJobs /\ faults' = faults
    /\ pending_episodes' = mark_pending(pending_episodes, CurEpisode(s),
                               CurChannel(s).name, 0, now)
    /\ sub' = [sub EXCEPT ![p] = EpisodeDone(s, "Failed", "submit_transcription")]
    /\ UNCHANGED <<processed_episodes, azure, files, poll>>

\* Mutant of SubmitTranscriptionRaises: there is no inner try, the channel's
\* except clause takes the exception and the rest of the channel is dropped.
SubmitTranscriptionRaisesDropsChannel(p) ==
    LET s == Called(sub[p], "submit_transcription") IN
    /\ s.pc = "submit"
    /\ \/ MayRaise /\ faults' = faults + 1
       \/ Len(azure) >= MaxJobs /\ faults' = faults
    /\ sub' = [sub EXCEPT ![p] = ChannelFailed(s, "submit_transcription")]
    /\ UNCHANGED <<pending_episodes, processed_episodes, azure, files, poll>>

\* submit_transcription raises (requests.post or raise_for_status; always
\* once the service accepts no more jobs): the inner except clause logs it
\* and the loop goes on.
SubmitTranscriptionRaises(p) ==
    LET s == Called(sub[p], "submit_transcription") IN
    /\ s.pc = "submit"
    /\ \/ MayRaise /\ faults' = faults + 1
       \/ Len(azure) >= MaxJobs /\ faults' = faults
    /\ sub' = [sub EXCEPT ![p] = EpisodeDone(s, "Failed", "submit_transcription")]
    /\ UNCHANGED <<pending_episodes, processed_episodes, azure, files, poll>>

\* db.mark_pending(...); submitted += 1
MarkPending(p) ==
    LET s == Called(sub[p], "mark_pending") IN
    /\ s.pc = "mark_pending"
    /\ pending_episodes' = mark_pending(pending_episodes, CurEpisode(s),
                               CurChannel(s).name, s.transcription_id, now)
    /\ sub' = [sub EXCEPT ![p] =
                 [EpisodeDone(s, "Submitted", None)
                    EXCEPT !.submitted = s.submitted + 1]]
    /\ UNCHANGED <<processed_episodes, azure, files, faults, poll>>

\* db.mark_pending raises inside the inner try: logged like a failed create.
MarkPendingRaises(p) ==
    LET s == Called(sub[p], "mark_pending") IN
    /\ s.pc = "mark_pending"
    /\ MayRaise
    /\ faults' = faults + 1
    /\ sub' = [sub EXCEPT ![p] = EpisodeDone(s, "Failed", "mark_pending")]
    /\ UNCHANGED <<pending_episodes, processed_episodes, azure, files, poll>>

Submitter(p) ==
    \/ NextChannel(p)
    \/ SubmitReturn(p)
    \/ CheckProcessed(p)
    \/ CheckPending(p)
    \/ \E at \in {"is_processed", "is_pending"} : StoreRaisesInCheck(p, at)
    \/ SubmitTranscription(p)
    \/ SubmitTranscriptionRaises(p)
    \/ MarkPending(p)
    \/ MarkPendingRaises(p)

(***************************************************************************)
(* The remote transcription service.                                       *)
(***************************************************************************)
\* The transcripts a job can end with: the texts of its recognised phrases.
Transcripts == {<<>>, <<"hello">>}

\* A job that has not ended reports NotStarted or Running.
ActiveStatuses == {"NotStarted", "Running"}

\* What a job may have become since it was last looked at: an active job
\* stays active or ends, Succeeded with a transcript or Failed; an ended
\* job stays as it is.
JobFutures(job) ==
    IF job.status = "Active"
    THEN {job} \cup {[job EXCEPT !.status = "Succeeded", !.result = t] :
                        t \in Transcripts}
               \cup {[job EXCEPT !.status = "Failed"]}
    ELSE {job}

(***************************************************************************)
(* query.py                                                                *)
(***************************************************************************)
JobIdentity(job) == <<job.episode_id, job.channel>>

\* md_path of save_output without its extension: the published date when
\* the row has one, the day of the run otherwise.
save_output(pending) ==
    get_output_path(OUTPUT_DIR, pending.channel,
                    IF pending.published # None THEN pending.published ELSE "today",
                    pending.title)

\* query.main: the pending list is read once; when it is empty, and with
\* --list, main returns without entering the loop.
StartPoll(channel, list_only) ==
    /\ poll.pc = "idle"
    /\ LET pending_list == get_pending(pending_episodes, channel) IN
       poll' = IF pending_list = <<>>
               THEN [PollIdle EXCEPT !.pc = "next", !.idx = 1,
                                     !.log = "No pending transcriptions"]
               ELSE IF list_only
               THEN [PollIdle EXCEPT !.pc = "next", !.idx = 1, !.log = "Listed"]
               ELSE [PollIdle EXCEPT !.pc = "next", !.pending_list = pending_list,
                                     !.idx = 1]
    /\ UNCHANGED <<pending_episodes, processed_episodes, azure, files,
                   faults, sub>>

\* for pending in pending_list: there is one more job.
HasJob(q) == q.pc = "next" /\ q.idx <= Len(q.pending_list)

\* The summary is logged and main returns: the invocation ends.
PollReturn ==
    /\ poll.pc = "next"
    /\ poll.idx > Len(poll.pending_list)
    /\ poll' = PollIdle
    /\ UNCHANGED <<pending_episodes, processed_episodes, azure, files,
                   faults, sub>>

\* The poller's record as it takes up the next job.
TakeJob(q) ==
    [q EXCEPT !.pending = q.pending_list[q.idx], !.status = None,
              !.branch = None, !.segments = <<>>, !.output_path = <<>>,
              !.raised = None, !.calls = <<>>, !.log = None, !.pre = Snapshot,
              !.counts = [completed |-> q.completed,
                          still_running |-> q.still_running,
                          failed |-> q.failed]]

\* The poller's record after one more call for the current job.
PollCalled(q, call) == [q EXCEPT !.calls = Append(q.calls, call)]

\* The poller's record once it is done with the current job.
JobDone(q, log, raised) ==
    [q EXCEPT !.pc = "next", !.idx = q.idx + 1, !.log = log, !.raised = raised]

\* Mutant of Except: the exception ends the pass.
ExceptAborts(q, at) ==
    [JobDone(q, "Error", at) EXCEPT !.failed = q.failed + 1,
                                    !.idx = Len(q.pending_list) + 1]

\* except Exception as e: logger.error(...); failed += 1
Except(q, at) ==
    [JobDone(q, "Error", at) EXCEPT !.failed = q.failed + 1]

\* The calls of the try block that change nothing when they raise.
RaisingCalls ==
    {"check_transcription_status", "get_transcription_result", "save_output",
     "mark_processed", "remove_pending"}

\* Mutant of PollRaises: the except clause drops the pending row.
PollRaisesDropsPending(at) ==
    /\ \/ at = "check_transcription_status" /\ HasJob(poll)
       \/ at \in RaisingCalls /\ poll.pc = at
    /\ MayRaise
    /\ faults' = faults + 1
    /\ LET q == IF poll.pc = "next" THEN TakeJob(poll) ELSE poll IN
       /\ poll' = Except(PollCalled(q, at), at)
       /\ pending_episodes' = remove_pending(pending_episodes,
                                  q.pending.episode_id, q.pending.channel)
    /\ UNCHANGED <<processed_episodes, azure, files, sub>>

\* A call of the try block raises although it could have succeeded.
PollRaises(at) ==
    /\ \/ at = "check_transcription_status" /\ HasJob(poll)
       \/ at \in RaisingCalls /\ poll.pc = at
    /\ MayRaise
    /\ faults' = faults + 1
    /\ LET q == IF poll.pc = "next" THEN TakeJob(poll) ELSE poll IN
       poll' = Except(PollCalled(q, at), at)
    /\ UNCHANGED <<pending_episodes, processed_episodes, azure, files, sub>>

\* Mutant of StillRunning: the job is counted as failed.
StillRunningCountsFailed(q) ==
    [JobDone(q, "Still running", None) EXCEPT !.failed = q.failed + 1]

\* else: logger.info("Still running"); still_running += 1
StillRunning(q) ==
    [JobDone(q, "Still running", None)
       EXCEPT !.still_running = q.still_running + 1]

\* The next job is taken up: status = check_transcription_status(...) and
\* the branch on status["status"].  The status of a deleted job is a 404,
\* which raise_for_status raises.
CheckStatus ==
    /\ HasJob(poll)
    /\ LET q == PollCalled(TakeJob(poll), "check_transcription_status")
           h == q.pending.transcription_id
       IN
       IF azure[h].status = "Deleted"
       THEN /\ poll' = Except(q, "check_transcription_status")
            /\ azure' = azure
       ELSE \E job \in JobFutures(azure[h]) :
            /\ azure' = [azure EXCEPT ![h] = job]
            /\ \E status \in IF job.status = "Active" THEN ActiveStatuses
                             ELSE {job.status} :
               LET r == [q EXCEPT !.status = status] IN
               poll' =
                 CASE status = "Succeeded" ->
                        [r EXCEPT !.pc = "get_transcription_result"]
                   [] status = "Failed" ->
                        [r EXCEPT !.pc = "mark_processed", !.branch = "failed"]
                   [] OTHER -> StillRunning(r)
    /\ UNCHANGED <<pending_episodes, processed_episodes, files, faults, sub>>

\* segments = get_transcription_result(...); if segments: ... else: ...
GetResult ==
    /\ poll.pc = "get_transcription_result"
    /\ LET q == PollCalled(poll, "get_transcription_result")
           segments == azure[q.pending.transcription_id].result
       IN
       poll' = [q EXCEPT !.segments = segments,
                         !.pc = IF segments # <<>> THEN "save_output"
                                ELSE "mark_processed",
                         !.branch = IF segments # <<>> THEN "success"
                                    ELSE "no segments"]
    /\ UNCHANGED <<pending_episodes, processed_episodes, azure, files,
                   faults, sub>>

\* output_path = save_output(pending, segments): the .md, then the .json
SaveOutput ==
    /\ poll.pc = "save_output"
    /\ LET base == save_output(poll.pending) IN
       /\ files' = files \cup {<<base, ".md">>, <<base, ".json">>}
       /\ poll' = [PollCalled(poll, "save_output")
                     EXCEPT !.pc = "mark_processed",
                            !.output_path = Append(base, ".md")]
    /\ UNCHANGED <<pending_episodes, processed_episodes, azure, faults, sub>>

\* Mutant of SaveOutputRaisesHalfway: the episode is marked processed before
\* its output is written.
SaveOutputRaisesAfterMark ==
    /\ poll.pc = "save_output"
    /\ MayRaise
    /\ faults' = faults + 1
    /\ files' = files \cup {<<save_output(poll.pending), ".md">>}
    /\ processed_episodes' =
         mark_processed(processed_episodes, poll.pending.episode_id,
                        poll.pending.channel, poll.pending.title,
                        Append(save_output(poll.pending), ".md"), "success")
    /\ poll' = Except(PollCalled(poll, "save_output"), "save_output")
    /\ UNCHANGED <<pending_episodes, azure, sub>>

\* save_output raises after the .md is written (opening the .json fails).
SaveOutputRaisesHalfway ==
    /\ poll.pc = "save_output"
    /\ MayRaise
    /\ faults' = faults + 1
    /\ files' = files \cup {<<save_output(poll.pending), ".md">>}
    /\ poll' = Except(PollCalled(poll, "save_output"), "save_output")
    /\ UNCHANGED <<pending_episodes, processed_episodes, azure, sub>>

\* Mutant of MarkProcessed: marking an episode processed drops its pending
\* row as well.
MarkProcessedAlsoRemoves ==
    /\ poll.pc = "mark_processed"
    /\ processed_episodes' =
         mark_processed(processed_episodes, poll.pending.episode_id,
                        poll.pending.channel, poll.pending.title,
                        IF poll.branch = "success" THEN poll.output_path ELSE <<>>,
                        IF poll.branch = "success" THEN "success" ELSE "failed")
    /\ pending_episodes' =
         remove_pending(pending_episodes, poll.pending.episode_id,
                        poll.pending.channel)
    /\ poll' = [PollCalled(poll, "mark_processed") EXCEPT !.pc = "remove_pending"]
    /\ UNCHANGED <<azure, files, faults, sub>>

\* Mutant of MarkProcessed: the success branch records no output path.
MarkProcessedEmptyPath ==
    /\ poll.pc = "mark_processed"
    /\ processed_episodes' =
         mark_processed(processed_episodes, poll.pending.episode_id,
                        poll.pending.channel, poll.pending.title,
                        <<>>,
                        IF poll.branch = "success" THEN "success" ELSE "failed")
    /\ poll' = [PollCalled(poll, "mark_processed") EXCEPT !.pc = "remove_pending"]
    /\ UNCHANGED <<pending_episodes, azure, files, faults, sub>>

\* Mutant of MarkProcessed: the remote job is deleted right after the
\* processed row is written, before the pending row is removed.
MarkProcessedThenDelete ==
    /\ poll.pc = "mark_processed"
    /\ processed_episodes' =
         mark_processed(processed_episodes, poll.pending.episode_id,
                        poll.pending.channel, poll.pending.title,
                        IF poll.branch = "success" THEN poll.output_path ELSE <<>>,
                        IF poll.branch = "success" THEN "success" ELSE "failed")
    /\ poll' = [PollCalled(poll, "mark_processed")
                  EXCEPT !.pc = "delete_transcription"]
    /\ UNCHANGED <<pending_episodes, azure, files, faults, sub>>

\* db.mark_processed(...) of the three terminal branches
MarkProcessed ==
    /\ poll.pc = "mark_processed"
    /\ processed_episodes' =
         mark_processed(processed_episodes, poll.pending.episode_id,
                        poll.pending.channel, poll.pending.title,
                        IF poll.branch = "success" THEN poll.output_path ELSE <<>>,
                        IF poll.branch = "success" THEN "success" ELSE "failed")
    /\ poll' = [PollCalled(poll, "mark_processed") EXCEPT !.pc = "remove_pending"]
    /\ UNCHANGED <<pending_episodes, azure, files, faults, sub>>

\* The poller's record after the last statement of a terminal branch.
BranchDone(q) ==
    IF q.branch = "success"
    THEN [JobDone(q, "Completed", None) EXCEPT !.completed = q.completed + 1]
    ELSE [JobDone(q, IF q.branch = "failed" THEN "Failed" ELSE "No segments found",
                  None)
            EXCEPT !.failed = q.failed + 1]

\* Mutant of RemovePending: the DELETE matches no row.
RemovePendingKeeps ==
    /\ poll.pc = "remove_pending"
    /\ pending_episodes' = pending_episodes
    /\ LET q == PollCalled(poll, "remove_pending") IN
       poll' = IF q.branch = "no segments"
               THEN BranchDone(q)
               ELSE [q EXCEPT !.pc = "delete_transcription"]
    /\ UNCHANGED <<processed_episodes, azure, files, faults, sub>>

\* db.remove_pending(...); the branch for no segments ends here.
RemovePending ==
    /\ poll.pc = "remove_pending"
    /\ pending_episodes' =
         remove_pending(pending_episodes, poll.pending.episode_id,
                        poll.pending.channel)
    /\ LET q == PollCalled(poll, "remove_pending") IN
       poll' = IF q.branch = "no segments"
               THEN BranchDone(q)
               ELSE [q EXCEPT !.pc = "delete_transcription"]
    /\ UNCHANGED <<processed_episodes, azure, files, faults, sub>>

\* delete_transcription(...): requests.delete; the response is not looked at.
DeleteTranscription ==
    /\ poll.pc = "delete_transcription"
    /\ azure' = [azure EXCEPT ![poll.pending.transcription_id].status = "Deleted"]
    /\ poll' = BranchDone(PollCalled(poll, "delete_transcription"))
    /\ UNCHANGED <<pending_episodes, processed_episodes, files, faults, sub>>

\* requests.delete raises (connection error, timeout): the job may or may
\* not have been deleted; the except clause of the loop takes the exception.
DeleteTranscriptionRaises(deleted) ==
    /\ poll.pc = "delete_transcription"
    /\ MayRaise
    /\ faults' = faults + 1
    /\ azure' = IF deleted
                THEN [azure EXCEPT ![poll.pending.transcription_id].status =
                                       "Deleted"]
                ELSE azure
    /\ poll' = Except(PollCalled(poll, "delete_transcription"),
                      "delete_transcription")
    /\ UNCHANGED <<pending_episodes, processed_episodes, files, sub>>

Poller ==
    \/ PollReturn
    \/ \E at \in RaisingCalls : PollRaises(at)
    \/ CheckStatus
    \/ GetResult
    \/ SaveOutput
    \/ SaveOutputRaisesHalfway
    \/ MarkProcessed
    \/ RemovePending
    \/ DeleteTranscription
    \/ \E deleted \in BOOLEAN : DeleteTranscriptionRaises(deleted)

(***************************************************************************)
(* Invocations run one after the other: a pass starts when no other runs.  *)
(***************************************************************************)
Next ==
    \/ AllIdle /\ StartConfig("s1")
    \/ \E c \in ChannelNames : AllIdle /\ StartSingle("s1", c)
    \/ \E c \in ChannelNames \cup {None}, l \in BOOLEAN : AllIdle /\ StartPoll(c, l)
    \/ \E p \in SubmitterIds : Submitter(p)
    \/ Poller

Spec == Init /\ [][Next]_vars

(***************************************************************************)
(* The same passes under the conditions of eventual resolution: a pass     *)
(* that runs takes its next step, passes of query.py over all channels     *)
(* are started again and again, and a job that is asked for its status     *)
(* again and again is at some time found ended.  The calls that raise      *)
(* come to an end with MaxFaults.                                          *)
(***************************************************************************)
\* The status query finds job h ended, as Succeeded or as Failed.
StatusEnded(h) ==
    /\ CheckStatus
    /\ poll'.pending.transcription_id = h
    /\ poll'.status \in {"Succeeded", "Failed"}

Fairness ==
    /\ \A p \in SubmitterIds : WF_vars(Submitter(p))
    /\ WF_vars(Poller)
    /\ SF_vars(AllIdle /\ StartPoll(None, FALSE))
    /\ \A h \in 1..MaxJobs : SF_vars(StatusEnded(h))

LiveSpec == Init /\ [][Next]_vars /\ Fairness

(***************************************************************************)
(* Invocations run at the same time: a batch pass of submit.py, a pass of  *)
(* submit.py for the feed of channel c1 and a pass of query.py.  Every     *)
(* call of the store is one transaction, so the calls interleave freely.   *)
(* No call raises here but the create call of a service that is full.      *)
(***************************************************************************)
\* Every invocation runs once: a submitter or poller that has returned
\* is done.
SubDone == [SubIdle EXCEPT !.pc = "done"]
PollDone == [PollIdle EXCEPT !.pc = "done"]

SubmitReturnOnce(p) ==
    LET s == sub[p] IN
    /\ s.pc = "next"
    /\ s.ei > Len(s.episodes)
    /\ s.ci >= Len(s.channels)
    /\ sub' = [sub EXCEPT ![p] = SubDone]
    /\ UNCHANGED <<pending_episodes, processed_episodes, azure, files, faults,
                   poll>>

PollReturnOnce ==
    /\ poll.pc = "next"
    /\ poll.idx > Len(poll.pending_list)
    /\ poll' = PollDone
    /\ UNCHANGED <<pending_episodes, processed_episodes, azure, files,
                   faults, sub>>

\* The store the invocations find: empty, or left by earlier passes in
\* which the job of the first episode failed and was reconciled.
FailedBefore ==
    [pending |-> <<>>,
     processed |-> mark_processed(<<>>, "e1", "c1", FeedEntries[1].title, <<>>,
                                  "failed"),
     azure |-> <<[status |-> "Deleted", result |-> <<>>, item |-> <<"e1", "c1">>]>>]
ConcStores == {NoSnapshot, FailedBefore}

ConcInit ==
    /\ \E store \in ConcStores :
         /\ pending_episodes = store.pending
         /\ processed_episodes = store.processed
         /\ azure = store.azure
    /\ files = {}
    /\ faults = 0
    /\ sub = [p \in SubmitterIds |-> SubIdle]
    /\ poll = PollIdle

ConcNext ==
    \/ StartConfig("s1")
    \/ StartSingle("s2", "c1")
    \/ StartPoll(None, FALSE)
    \/ \E p \in SubmitterIds :
         \/ NextChannel(p)
         \/ SubmitReturnOnce(p)
         \/ CheckProcessed(p)
         \/ CheckPending(p)
         \/ SubmitTranscription(p)
         \/ SubmitTranscriptionRaises(p)
         \/ MarkPending(p)
    \/ PollReturnOnce
    \/ CheckStatus
    \/ GetResult
    \/ SaveOutput
    \/ MarkProcessed
    \/ RemovePending
    \/ DeleteTranscription

ConcSpec == ConcInit /\ [][ConcNext]_vars

(***************************************************************************)
(* One pass of query.py over one succeeded job whose episode has a title   *)
(* drawn from the titles below: save_output hands the title to             *)
(* get_output_path, which sanitizes it into the name of the artifacts.     *)
(***************************************************************************)
\* U+007F, which the class [\x00-\x1f] of sanitize_filename does not cover.
Delete == "\\x7f"

\* A letter, the stripped characters, an illegal character, two characters
\* of [\x00-\x1f], and U+007F.
TitleChars == {"a", " ", ".", ":", "\t", "\n", Delete}

RECURSIVE SeqsUpTo(_, _)
SeqsUpTo(S, n) ==
    IF n = 0 THEN {<<>>}
    ELSE LET shorter == SeqsUpTo(S, n - 1) IN
         shorter \cup {Append(t, ch) : t \in shorter, ch \in S}

Pad(n, ch) == [i \in 1..n |-> ch]

\* The titles a feed may carry: short ones, and ones that a run of letters
\* or of spaces brings up to the cap of sanitize_filename and beyond it.
Titles ==
    {Pad(n, ch) \o t : n \in {0, MaxNameLen - 1, MaxNameLen}, ch \in {"a", " "},
                       t \in SeqsUpTo(TitleChars, MaxTitleLen)}

SanInit ==
    /\ \E title \in Titles :
         pending_episodes =
           mark_pending(<<>>, [FeedEntries[1] EXCEPT !.title = title], "c1", 1, 1)
    /\ processed_episodes = <<>>
    /\ azure = <<[status |-> "Succeeded", result |-> <<"hello">>,
                  item |-> <<"e1", "c1">>]>>
    /\ files = {}
    /\ faults = 0
    /\ sub = [p \in SubmitterIds |-> SubIdle]
    /\ poll = PollIdle

SanNext ==
    \/ StartPoll(None, FALSE)
    \/ PollReturnOnce
    \/ CheckStatus
    \/ GetResult
    \/ SaveOutput
    \/ MarkProcessed
    \/ RemovePending
    \/ DeleteTranscription

SanSpec == SanInit /\ [][SanNext]_vars

(***************************************************************************)
(* What the properties speak of.                                           *)
(***************************************************************************)
Range(seq) == {seq[i] : i \in 1..Len(seq)}

\* The identity has a pending row; it has a processed row of that status.
HasPending(rows, id) == RowsOf(rows, id) # <<>>
HasProcessed(rows, id, status) ==
    \E i \in 1..Len(rows) : SameKey(rows[i], id[1], id[2]) /\ rows[i].status = status

\* The identity is awaited and done at once.
Both(id) ==
    HasPending(pending_episodes, id) /\ HasProcessed(processed_episodes, id, "success")

\* Neither table differs from what it was when the current item was taken up.
TablesAsBefore(pre) ==
    pending_episodes = pre.pending /\ processed_episodes = pre.processed

\* The poller is done with a job; the submitter is done with an episode.
JobFinished == poll.pc = "next" /\ poll.pending # NoPending /\ poll.log # None
EpisodeFinished(s) == s.pc = "next" /\ s.log # None

(***************************************************************************)
(* C1                                                                      *)
(***************************************************************************)
\* C1: when a run is done with an episode for
\* which an earlier run's create call succeeded (the job existed remotely
\* and had not ended when the episode was taken up), it has made no create
\* call and written nothing, and exactly one pending row, with the handle of
\* that job, exists.
C1_IdempotentSubmission ==
    \A p \in SubmitterIds :
      LET s == sub[p]
          first == {h \in 1..Len(s.pre.azure) :
                      s.pre.azure[h].item = s.item /\ s.pre.azure[h].status = "Active"}
      IN (EpisodeFinished(s) /\ first # {}) =>
           /\ "submit_transcription" \notin Range(s.calls)
           /\ TablesAsBefore(s.pre)
           /\ Len(RowsOf(pending_episodes, s.item)) = 1
           /\ RowsOf(pending_episodes, s.item)[1].transcription_id \in first

(***************************************************************************)
(* C2                                                                      *)
(***************************************************************************)
\* C2: the create call is made only for an episode that has neither a
\* processed row of status success nor a pending row, and only after the
\* processed check and then the pending check have been made, in that order.
C2_NoCreateForKnownIdentity ==
    \A p \in SubmitterIds :
      LET s == sub[p] IN
      /\ s.pc = "submit" =>
           /\ ~HasProcessed(processed_episodes, s.item, "success")
           /\ ~HasPending(pending_episodes, s.item)
           /\ s.calls = <<"is_processed", "is_pending">>
      /\ "submit_transcription" \in Range(s.calls) =>
           /\ ~HasProcessed(s.pre.processed, s.item, "success")
           /\ ~HasPending(s.pre.pending, s.item)
           /\ SubSeq(s.calls, 1, 3) =
                <<"is_processed", "is_pending", "submit_transcription">>
      /\ HasProcessed(s.pre.processed, s.item, "success") =>
           s.calls \in {<<>>, <<"is_processed">>}

\* The create call has been made for one episode while another is done and a
\* third is awaited.
C2_Witness ==
    \E p \in SubmitterIds :
      LET s == sub[p] IN
      /\ s.pc = "mark_pending"
      /\ \E id \in Identities : HasProcessed(processed_episodes, id, "success")
      /\ pending_episodes # <<>>

(***************************************************************************)
(* C3                                                                      *)
(***************************************************************************)
\* C3: when submit_transcription raises for an episode, no pending row and
\* no processed row is written for it: both tables are as they were when the
\* episode was taken up, and the episode has no pending row.
C3_NoPartialStateOnCreateFailure ==
    \A p \in SubmitterIds :
      LET s == sub[p] IN
      s.raised = "submit_transcription" =>
        /\ TablesAsBefore(s.pre)
        /\ ~HasPending(pending_episodes, s.item)
        /\ ~HasProcessed(processed_episodes, s.item, "success")
        /\ s.log = "Failed"

\* The create call has raised for an episode.
C3_Witness ==
    \E p \in SubmitterIds :
      LET s == sub[p] IN
      /\ EpisodeFinished(s)
      /\ s.raised = "submit_transcription"
      /\ s.calls = <<"is_processed", "is_pending", "submit_transcription">>

(***************************************************************************)
(* C4                                                                      *)
(***************************************************************************)
\* C4: an episode whose only processed row has status failed and which has
\* no pending row is not skipped: once both checks have returned the create
\* call is made; when it returns a handle mark_pending is called next, and
\* when that returns exactly one pending row exists for the episode,
\* carrying the handle of the job just created.
C4_FailedJobsResubmittable ==
    \A p \in SubmitterIds :
      LET s == sub[p] IN
      ( /\ s.item # NoItem
        /\ HasProcessed(s.pre.processed, s.item, "failed")
        /\ ~HasProcessed(s.pre.processed, s.item, "success")
        /\ ~HasPending(s.pre.pending, s.item) ) =>
        /\ s.log \notin {"Skipping (done)", "Skipping (pending)"}
        /\ (EpisodeFinished(s) /\ s.raised \notin {"is_processed", "is_pending"})
             => "submit_transcription" \in Range(s.calls)
        /\ (EpisodeFinished(s) /\ s.transcription_id > 0) =>
             s.calls = <<"is_processed", "is_pending", "submit_transcription",
                         "mark_pending">>
        /\ (EpisodeFinished(s) /\ s.raised = None) =>
             /\ s.log = "Submitted"
             /\ Len(RowsOf(pending_episodes, s.item)) = 1
             /\ RowsOf(pending_episodes, s.item)[1].transcription_id
                  = s.transcription_id
             /\ s.transcription_id = Len(s.pre.azure) + 1
             /\ azure[s.transcription_id].item = s.item

\* An episode whose job had failed has been submitted again.
C4_Witness ==
    \E p \in SubmitterIds :
      LET s == sub[p] IN
      /\ EpisodeFinished(s)
      /\ s.log = "Submitted"
      /\ HasProcessed(s.pre.processed, s.item, "failed")
      /\ HasPending(pending_episodes, s.item)

(***************************************************************************)
(* C5                                                                      *)
(***************************************************************************)
\* C5 as the specification states it: at every point no episode has both a
\* pending row and a processed row of status success.
C5_AsStated == \A id \in Identities : ~Both(id)

\* C5: an episode comes to have both a pending row and a processed row of
\* status success only by the poller's mark_processed for the pending job of
\* that episode, never by a step of the submitter; and a remove_pending that
\* returns leaves the episode without a pending row.
C5_BothOnlyInsideReconciliation ==
    /\ [][\A id \in Identities :
            (~Both(id) /\ Both(id)') =>
              /\ poll.pc = "mark_processed"
              /\ poll.branch = "success"
              /\ JobIdentity(poll.pending) = id
              /\ poll'.pc = "remove_pending"
              /\ sub' = sub]_vars
    /\ [][(poll.pc = "remove_pending" /\ poll'.raised = None /\ poll' # poll) =>
            ~HasPending(pending_episodes', JobIdentity(poll.pending))]_vars

\* An episode is both awaited and done while its job is being reconciled.
C5_Witness ==
    /\ poll.pc = "remove_pending"
    /\ poll.branch = "success"
    /\ Both(JobIdentity(poll.pending))

(***************************************************************************)
(* C6                                                                      *)
(***************************************************************************)
\* C6: once the poller is done with a job, whatever the outcome (a caught
\* exception included), the episode of that job does not have both a pending
\* row and a processed row of status success.
C6_ExclusiveAfterReconciliation ==
    JobFinished => ~Both(JobIdentity(poll.pending))

(***************************************************************************)
(* C7                                                                      *)
(***************************************************************************)
\* C7: when check_transcription_status raises for a job, the pending row of
\* the job is unchanged and still listed, no processed row is written, no
\* other call is made for the job (so none that deletes it remotely), the
\* remote job is as it was, and the job is counted as failed.
C7_StatusQueryFailureKeepsJob ==
    (JobFinished /\ poll.raised = "check_transcription_status") =>
      /\ TablesAsBefore(poll.pre)
      /\ RowsOf(pending_episodes, JobIdentity(poll.pending)) = <<poll.pending>>
      /\ poll.pending \in Range(get_pending(pending_episodes, None))
      /\ poll.calls = <<"check_transcription_status">>
      /\ azure = poll.pre.azure
      /\ poll.failed = poll.counts.failed + 1

\* The status query has raised for a job that exists remotely.
C7_Witness ==
    /\ JobFinished
    /\ poll.raised = "check_transcription_status"
    /\ azure[poll.pending.transcription_id].status # "Deleted"

(***************************************************************************)
(* C8                                                                      *)
(***************************************************************************)
\* C8: whichever call of the loop body
\* raises, both tables are as they were when the job was taken up and the
\* job still has its pending row.
C8_ExceptionsLeaveTablesUnchanged ==
    (JobFinished /\ poll.raised # None) =>
      /\ TablesAsBefore(poll.pre)
      /\ HasPending(pending_episodes, JobIdentity(poll.pending))

(***************************************************************************)
(* C9                                                                      *)
(***************************************************************************)
\* C9: when the reported status is neither Succeeded nor Failed, both tables
\* are as they were, the status query is the only call made for the job (no
\* fetch, no delete), the remote job is not deleted, and the job is counted
\* as still running and as nothing else.
C9_NonTerminalStatusChangesNothing ==
    (JobFinished /\ poll.raised = None
       /\ poll.status \notin {"Succeeded", "Failed"}) =>
      /\ poll.status \in ActiveStatuses
      /\ poll.log = "Still running"
      /\ TablesAsBefore(poll.pre)
      /\ RowsOf(pending_episodes, JobIdentity(poll.pending)) = <<poll.pending>>
      /\ poll.calls = <<"check_transcription_status">>
      /\ azure[poll.pending.transcription_id].status = "Active"
      /\ poll.still_running = poll.counts.still_running + 1
      /\ poll.completed = poll.counts.completed
      /\ poll.failed = poll.counts.failed

\* A job has reported Running.
C9_Witness ==
    /\ JobFinished
    /\ poll.status = "Running"
    /\ poll.log = "Still running"

(***************************************************************************)
(* C10                                                                     *)
(***************************************************************************)
\* C10: when save_output raises, the pending row of the job is kept
\* unchanged and still listed, no processed row is written, no delete call
\* is made and the remote job still holds its transcript.
C10_OutputFailureKeepsJob ==
    (JobFinished /\ poll.raised = "save_output") =>
      /\ TablesAsBefore(poll.pre)
      /\ RowsOf(pending_episodes, JobIdentity(poll.pending)) = <<poll.pending>>
      /\ poll.pending \in Range(get_pending(pending_episodes, None))
      /\ "delete_transcription" \notin Range(poll.calls)
      /\ azure[poll.pending.transcription_id].status = "Succeeded"
      /\ azure[poll.pending.transcription_id].result = poll.segments

\* Writing the output has failed after the .md was written.
C10_Witness ==
    /\ JobFinished
    /\ poll.raised = "save_output"
    /\ <<save_output(poll.pending), ".md">> \in files
    /\ <<save_output(poll.pending), ".json">> \notin files

(***************************************************************************)
(* C11                                                                     *)
(***************************************************************************)
\* C11: whenever the poller ends a job as a failure without an exception,
\* the service having reported Failed or Succeeded with no segments, the
\* episode has a processed row of status failed with an empty output path,
\* its pending row is gone, and the delete of the remote job was issued.
C11_TerminalFailureCleansUp ==
    (JobFinished /\ poll.raised = None /\ poll.branch \in {"failed", "no segments"}) =>
      LET id == JobIdentity(poll.pending) IN
      /\ \E i \in 1..Len(processed_episodes) :
           /\ SameKey(processed_episodes[i], id[1], id[2])
           /\ processed_episodes[i].status = "failed"
           /\ processed_episodes[i].output_path = <<>>
      /\ ~HasPending(pending_episodes, id)
      /\ "delete_transcription" \in Range(poll.calls)
      /\ azure[poll.pending.transcription_id].status = "Deleted"

(***************************************************************************)
(* C12                                                                     *)
(***************************************************************************)
\* C12: when the delete of the remote job raises after the processed row of
\* status success was written and the pending row removed, the episode keeps
\* its processed row of status success and has no pending row, and the job
\* is counted as completed and not as failed.
C12_BestEffortDelete ==
    (JobFinished /\ poll.raised = "delete_transcription" /\ poll.branch = "success") =>
      LET id == JobIdentity(poll.pending) IN
      /\ HasProcessed(processed_episodes, id, "success")
      /\ ~HasPending(pending_episodes, id)
      /\ poll.completed = poll.counts.completed + 1
      /\ poll.failed = poll.counts.failed

(***************************************************************************)
(* C13                                                                     *)
(***************************************************************************)
\* How far a poll pass has come: the jobs it is done with, then the calls
\* made for the current one.
PollProgress(q) ==
    q.idx * 6 +
      CASE q.pc = "get_transcription_result" -> 1
        [] q.pc = "save_output" -> 2
        [] q.pc = "mark_processed" -> 3
        [] q.pc = "remove_pending" -> 4
        [] q.pc = "delete_transcription" -> 5
        [] OTHER -> 0

\* C13: in a poll pass the jobs of the list read at its start are taken up
\* one by one in order, each exactly once whatever the earlier jobs ended
\* with: the jobs counted are the jobs done, the pass moves on by one job
\* at a time and returns only after the last one.  The pass terminates: it
\* can always take a step, and every step brings it nearer to the end of
\* the list.
C13_EveryJobReconciledOnce ==
    /\ [](poll.pc # "idle" =>
            /\ poll.idx \in 1..Len(poll.pending_list) + 1
            /\ poll.completed + poll.still_running + poll.failed = poll.idx - 1
            /\ JobFinished => poll.pending = poll.pending_list[poll.idx - 1]
            /\ poll.pc \notin {"idle", "next"} =>
                 poll.pending = poll.pending_list[poll.idx]
            /\ ENABLED Poller)
    /\ [][(poll.pc # "idle" /\ poll' # poll) =>
            /\ poll'.pending_list = poll.pending_list \/ poll'.pc = "idle"
            /\ poll'.pc = "idle" => poll.idx = Len(poll.pending_list) + 1
            /\ poll'.pc # "idle" =>
                 /\ poll'.idx \in {poll.idx, poll.idx + 1}
                 /\ PollProgress(poll') > PollProgress(poll)]_vars

\* The first job of a pass ended with an exception and the second one has
\* been completed.
C13_Witness ==
    /\ JobFinished
    /\ Len(poll.pending_list) = 2
    /\ poll.idx = 3
    /\ poll.counts.failed = 1
    /\ poll.pre.processed = <<>>
    /\ faults = 1
    /\ poll.log = "Completed"

(***************************************************************************)
(* C14                                                                     *)
(***************************************************************************)
\* C14: in a pass of process_config_file a create call that raises ends the
\* episode only: the pass stays in the loop and moves on by one episode.
\* The pass takes the episodes of a channel one after the other and the
\* channels one after the other, leaves a channel early only when a store
\* check raises, returns only after the last episode of the last channel,
\* and can always go on: the next episode can be put through the checks,
\* and an episode that passed both checks is handed to the create call.
C14_CreateFailureDoesNotStopThePass ==
    /\ [](\A p \in SubmitterIds :
            LET s == sub[p] IN
            s.mode = "config" =>
              /\ s.raised = "submit_transcription" =>
                   /\ s.pc = "next"
                   /\ s.log = "Failed"
              /\ (s.raised = "submit_transcription" /\ s.ei > 1) =>
                   /\ s.ei <= Len(s.episodes) + 1
                   /\ s.item = <<s.episodes[s.ei - 1].id, CurChannel(s).name>>
              /\ ENABLED Submitter(p)
              /\ HasEpisode(s) => ENABLED CheckProcessed(p)
              /\ s.pc = "submit" =>
                   ENABLED (SubmitTranscription(p) \/ SubmitTranscriptionRaises(p)))
    /\ [][\A p \in SubmitterIds :
            LET s == sub[p]
                t == sub'[p]
            IN (s.mode = "config" /\ t # s) =>
                 /\ t.pc = "idle" =>
                      s.ci = Len(s.channels) /\ s.ei > Len(s.episodes)
                 /\ (t.pc # "idle" /\ t.ci # s.ci) =>
                      t.ci = s.ci + 1 /\ s.ei > Len(s.episodes) /\ t.ei = 1
                 /\ (t.pc # "idle" /\ t.ci = s.ci /\ t.ei # s.ei) =>
                      \/ t.ei = s.ei + 1
                      \/ t.raised \in {"is_processed", "is_pending"}
                 /\ (t.pc # "idle" /\ t.item # s.item) =>
                      t.item = <<t.episodes[s.ei].id, t.channels[s.ci].name>>]_vars

\* The create call raised for the first episode of the first channel; the
\* second episode and the episode of the second channel were submitted.
C14_Witness ==
    \E p \in SubmitterIds :
      LET s == sub[p] IN
      /\ s.mode = "config"
      /\ EpisodeFinished(s)
      /\ s.ci = 2
      /\ s.submitted = 2
      /\ s.skipped = 0
      /\ ~HasPending(pending_episodes, <<"e1", "c1">>)
      /\ HasPending(pending_episodes, <<"e2", "c1">>)
      /\ HasPending(pending_episodes, <<"e1", "c2">>)
      /\ Len(azure) = 2

(***************************************************************************)
(* C15                                                                     *)
(***************************************************************************)
\* What get_stats reports for a channel and a status; nothing reported
\* reads as zero.
StatOf(stats, c, status) ==
    IF c \in DOMAIN stats.processed THEN stats.processed[c][status] ELSE 0

\* The job the poller is done with was decided, as a success or a failure.
EndedIn(outcome) ==
    /\ JobFinished
    /\ poll.raised = None
    /\ \/ outcome = "success" /\ poll.branch = "success"
       \/ outcome = "failed" /\ poll.branch \in {"failed", "no segments"}

\* C15 as the specification states it, one reconciliation at a time: every
\* reconciliation of channel c that ends in success adds one to the success
\* count get_stats reports for c and leaves its failed count, every one that
\* ends in failure adds one to the failed count and leaves the success
\* count; the pending count is the number of pending rows.  Stated of the
\* runs in which no call has raised, where every processed row was written
\* by a reconciliation that ended in success or in failure.
C15_AsStated ==
    LET c == poll.pending.channel
        before == get_stats(poll.pre.processed, poll.pre.pending)
        after == get_stats(processed_episodes, pending_episodes)
    IN
    faults = 0 =>
    /\ EndedIn("success") =>
         /\ StatOf(after, c, "success") = StatOf(before, c, "success") + 1
         /\ StatOf(after, c, "failed") = StatOf(before, c, "failed")
    /\ EndedIn("failed") =>
         /\ StatOf(after, c, "failed") = StatOf(before, c, "failed") + 1
         /\ StatOf(after, c, "success") = StatOf(before, c, "success")
    /\ after.pending = Len(pending_episodes)

\* C15: get_stats reports, for every channel that has a processed row, the
\* number of episodes of the channel whose processed row has status success
\* and the number whose processed row has status failed, and as pending the
\* number of episodes that have a pending row.  A reconciliation that ends
\* in success makes its episode count as a success and no longer as a
\* failure; one that ends in failure makes it count as a failure and no
\* longer as a success.
C15_StatsCountEpisodes ==
    LET stats == get_stats(processed_episodes, pending_episodes)
        before == get_stats(poll.pre.processed, poll.pre.pending)
        With(c, status) ==
          Cardinality({id \in Identities :
                         id[2] = c /\ HasProcessed(processed_episodes, id, status)})
        id == JobIdentity(poll.pending)
        Had(status) == IF HasProcessed(poll.pre.processed, id, status) THEN 1 ELSE 0
    IN
    /\ DOMAIN stats.processed =
         {c \in ChannelNames : With(c, "success") + With(c, "failed") > 0}
    /\ \A c \in DOMAIN stats.processed :
         /\ stats.processed[c].success = With(c, "success")
         /\ stats.processed[c].failed = With(c, "failed")
    /\ stats.pending =
         Cardinality({i \in Identities : HasPending(pending_episodes, i)})
    /\ EndedIn("success") =>
         /\ StatOf(stats, id[2], "success") =
              StatOf(before, id[2], "success") + 1 - Had("success")
         /\ StatOf(stats, id[2], "failed") =
              StatOf(before, id[2], "failed") - Had("failed")
    /\ EndedIn("failed") =>
         /\ StatOf(stats, id[2], "failed") =
              StatOf(before, id[2], "failed") + 1 - Had("failed")
         /\ StatOf(stats, id[2], "success") =
              StatOf(before, id[2], "success") - Had("success")

\* An episode whose earlier job had failed has been reconciled as a success.
C15_Witness ==
    /\ EndedIn("success")
    /\ HasProcessed(poll.pre.processed, JobIdentity(poll.pending), "failed")
    /\ StatOf(get_stats(processed_episodes, pending_episodes),
              poll.pending.channel, "failed") = 0

(***************************************************************************)
(* C16                                                                     *)
(***************************************************************************)
\* The operations of the store that the passes call.
StoreCalls ==
    {"is_processed", "is_pending", "mark_pending", "mark_processed",
     "remove_pending"}

\* C16: an exception raised by an operation of the store ends the pass it
\* was raised in: no pass is still running, with the exception caught and
\* logged, after one of its store calls has raised.
C16_StoreErrorsAreFatal ==
    /\ \A p \in SubmitterIds :
         sub[p].raised \in StoreCalls => sub[p].pc = "idle"
    /\ poll.raised \in StoreCalls => poll.pc = "idle"

(***************************************************************************)
(* C17                                                                     *)
(***************************************************************************)
\* C17: however the calls of concurrently running submitters and of the
\* poller interleave, the pending table holds at most one row for an
\* episode and so does the processed table; a mark_pending for an episode
\* leaves exactly one pending row for it, the one just written, and a
\* mark_processed leaves exactly one processed row for it, with the status
\* just written.
C17_OneRowPerIdentity ==
    /\ [](\A id \in Identities :
            /\ Len(RowsOf(pending_episodes, id)) <= 1
            /\ Len(RowsOf(processed_episodes, id)) <= 1)
    /\ [][\A p \in SubmitterIds :
            (sub[p].pc = "mark_pending" /\ sub'[p].log = "Submitted") =>
              /\ Len(RowsOf(pending_episodes', sub[p].item)) = 1
              /\ RowsOf(pending_episodes', sub[p].item)[1].transcription_id
                   = sub[p].transcription_id]_vars
    /\ [][(poll.pc = "mark_processed" /\ poll'.pc = "remove_pending") =>
            LET rows == RowsOf(processed_episodes', JobIdentity(poll.pending)) IN
            /\ Len(rows) = 1
            /\ rows[1].status = IF poll.branch = "success" THEN "success"
                                ELSE "failed"
            /\ rows[1].output_path = IF poll.branch = "success"
                                     THEN poll.output_path ELSE <<>>]_vars

\* Two submitters have both written a pending row for the same episode and
\* the episode has one pending row.
C17_Witness ==
    /\ sub["s1"].log = "Submitted"
    /\ sub["s2"].log = "Submitted"
    /\ sub["s1"].item = sub["s2"].item
    /\ sub["s1"].transcription_id # sub["s2"].transcription_id
    /\ Len(RowsOf(pending_episodes, sub["s1"].item)) = 1

(***************************************************************************)
(* C18                                                                     *)
(***************************************************************************)
\* Two submitters have raced on an episode: both are done with it, both
\* made the create call for it, and no poll pass has run, so that neither
\* can have made its checks after the other's write.
Raced(p, q) ==
    /\ p # q
    /\ poll.pc = "idle"
    /\ EpisodeFinished(sub[p]) /\ EpisodeFinished(sub[q])
    /\ sub[p].item = sub[q].item
    /\ "submit_transcription" \in Range(sub[p].calls)
    /\ "submit_transcription" \in Range(sub[q].calls)

\* C18: when two submitters have raced on an episode, at most one of them
\* has ended its submission as a success, the other has ended with an
\* error, and the pending row still carries the handle of the one whose
\* submission succeeded.
C18_RacingSubmissions ==
    \A p, q \in SubmitterIds :
      Raced(p, q) =>
        /\ ~(sub[p].log = "Submitted" /\ sub[q].log = "Submitted")
        /\ sub[p].log = "Submitted" =>
             /\ sub[q].log = "Failed"
             /\ RowsOf(pending_episodes, sub[p].item)[1].transcription_id
                  = sub[p].transcription_id

(***************************************************************************)
(* C19                                                                     *)
(***************************************************************************)
\* C19: a mark_processed for an episode leaves the pending table as it is,
\* the pending row of that episode included, and leaves the processed rows
\* of every other episode as they are; a mark_pending for an episode leaves
\* the processed table as it is and leaves the pending rows of every other
\* episode as they are.
C19_TablesAreIndependent ==
    /\ [][(poll.pc = "mark_processed" /\ poll'.pc = "remove_pending") =>
            LET id == JobIdentity(poll.pending) IN
            /\ pending_episodes' = pending_episodes
            /\ RowsOf(pending_episodes', id) = <<poll.pending>>
            /\ HasProcessed(processed_episodes', id,
                            IF poll.branch = "success" THEN "success" ELSE "failed")
            /\ \A other \in Identities \ {id} :
                 RowsOf(processed_episodes', other)
                   = RowsOf(processed_episodes, other)]_vars
    /\ [][\A p \in SubmitterIds :
            (sub[p].pc = "mark_pending" /\ sub'[p].log = "Submitted") =>
              /\ processed_episodes' = processed_episodes
              /\ HasPending(pending_episodes', sub[p].item)
              /\ \A other \in Identities \ {sub[p].item} :
                   RowsOf(pending_episodes', other)
                     = RowsOf(pending_episodes, other)]_vars

\* A processed row has just been written for an episode that has its
\* pending row, next to the processed row of another episode.
C19_Witness ==
    /\ poll.pc = "remove_pending"
    /\ HasPending(pending_episodes, JobIdentity(poll.pending))
    /\ Len(processed_episodes) = 2
    /\ \E id \in Identities \ {JobIdentity(poll.pending)} :
         RowsOf(processed_episodes, id) # <<>>

(***************************************************************************)
(* C20                                                                     *)
(***************************************************************************)
\* C20: the failed count of a poll pass goes up by one for a job exactly
\* when the pass has recorded the job as processed with status failed; a
\* job whose reconciliation raised without recording it so is counted
\* apart, not as failed.
C20_FailedCountsRecordedFailures ==
    JobFinished =>
      LET recorded ==
            /\ poll.branch \in {"failed", "no segments"}
            /\ "remove_pending" \in Range(poll.calls)
      IN
      poll.failed = poll.counts.failed + (IF recorded THEN 1 ELSE 0)


(***************************************************************************)
(* C21                                                                     *)
(***************************************************************************)
\* C21: every processed row has status success or failed; a row of status
\* success carries the path of an artifact that has been written, so a
\* non-empty output path, and a row of status failed carries the empty one.
C21_OutputPathIffSuccess ==
    \A i \in 1..Len(processed_episodes) :
      LET r == processed_episodes[i] IN
      /\ r.status \in {"success", "failed"}
      /\ r.output_path # <<>> <=> r.status = "success"
      /\ r.status = "failed" => r.output_path = <<>>
      /\ r.status = "success" =>
           \E f \in files : r.output_path = Append(f[1], f[2])

\* The processed table holds a row of status success next to one of status
\* failed.
C21_Witness ==
    /\ \E id \in Identities : HasProcessed(processed_episodes, id, "success")
    /\ \E id \in Identities : HasProcessed(processed_episodes, id, "failed")

(***************************************************************************)
(* C22                                                                     *)
(***************************************************************************)
\* C22: an episode is skipped by the submitter only when its own identity,
\* episode id and channel together, has a processed row of status success
\* or a pending row; the rows of the same episode id under another channel
\* never make it skipped.  While the poller reconciles the job of an
\* identity, and when it is done with it, the rows of every other identity,
\* those of the same episode id under another channel included, are as they
\* were when the job was taken up.
C22_DedupKeyedOnPair ==
    /\ \A p \in SubmitterIds :
         LET s == sub[p] IN
         /\ s.log = "Skipping (done)" =>
              HasProcessed(s.pre.processed, s.item, "success")
         /\ s.log = "Skipping (pending)" =>
              HasPending(s.pre.pending, s.item)
         /\ ( /\ EpisodeFinished(s)
              /\ s.raised = None
              /\ ~HasProcessed(s.pre.processed, s.item, "success")
              /\ ~HasPending(s.pre.pending, s.item) ) =>
              /\ s.log = "Submitted"
              /\ "submit_transcription" \in Range(s.calls)
    /\ (poll.pc # "idle" /\ poll.pending # NoPending) =>
         \A other \in Identities \ {JobIdentity(poll.pending)} :
           /\ RowsOf(pending_episodes, other) = RowsOf(poll.pre.pending, other)
           /\ RowsOf(processed_episodes, other)
                = RowsOf(poll.pre.processed, other)

\* The job of an episode under one channel has been reconciled and its
\* pending row removed, while the same episode under another channel,
\* submitted after it, still has its pending row.
C22_Witness ==
    /\ JobFinished
    /\ "remove_pending" \in Range(poll.calls)
    /\ \E other \in Identities \ {JobIdentity(poll.pending)} :
         /\ other[1] = poll.pending.episode_id
         /\ RowsOf(pending_episodes, other) # <<>>
         /\ RowsOf(pending_episodes, other)[1].transcription_id
              > poll.pending.transcription_id

(***************************************************************************)
(* C23                                                                     *)
(***************************************************************************)
\* The control characters: U+0000 to U+001F, and U+007F.
IsControl(ch) == ch \in ControlChars \cup {Delete}

\* C23: whatever the title of an episode, the name sanitize_filename makes
\* of it for the artifacts is not empty, is at most 200 characters long,
\* and holds none of the characters < > : " / \ | ? * and no control
\* character; a title made of those illegal characters, spaces and dots
\* only gives the name untitled.
C23_SanitizedNames ==
    poll.output_path # <<>> =>
      LET title == poll.pending.title
          name == poll.output_path[4]
      IN
      /\ name = sanitize_filename(title)
      /\ name # <<>>
      /\ Len(name) <= MaxNameLen
      /\ \A i \in 1..Len(name) :
           name[i] \notin IllegalChars /\ ~IsControl(name[i])
      /\ (\A i \in 1..Len(title) : title[i] \in IllegalChars \cup StripChars)
           => name = Untitled

(***************************************************************************)
(* C24                                                                     *)
(***************************************************************************)
\* The calls of the success branch, in the order the code makes them.
SuccessPath ==
    <<"check_transcription_status", "get_transcription_result", "save_output",
      "mark_processed", "remove_pending", "delete_transcription">>

\* The call has been made for the current job and has returned.
Returned(call) == call \in Range(poll.calls) /\ poll.raised # call

\* C24: on the success branch the calls made for a job are a beginning of:
\* status query, result fetch, save_output, mark_processed, remove_pending,
\* delete.  So once save_output has returned both artifacts exist, once
\* mark_processed has returned the episode has its processed row of status
\* success with the path of the artifact, once remove_pending has returned
\* the pending row is gone; and the remote job is deleted only when the
\* episode has no pending row and has its processed row.
C24_SuccessPathOrder ==
    (poll.pending # NoPending /\ poll.branch = "success") =>
      LET id == JobIdentity(poll.pending)
          h == poll.pending.transcription_id
      IN
      /\ poll.calls = SubSeq(SuccessPath, 1, Len(poll.calls))
      /\ Returned("save_output") =>
           {<<save_output(poll.pending), ".md">>,
            <<save_output(poll.pending), ".json">>} \subseteq files
      /\ Returned("mark_processed") =>
           \E i \in 1..Len(processed_episodes) :
             /\ SameKey(processed_episodes[i], id[1], id[2])
             /\ processed_episodes[i].status = "success"
             /\ processed_episodes[i].output_path = poll.output_path
      /\ Returned("remove_pending") => ~HasPending(pending_episodes, id)
      /\ ("delete_transcription" \in Range(poll.calls)
            \/ azure[h].status = "Deleted") =>
           /\ ~HasPending(pending_episodes, id)
           /\ HasProcessed(processed_episodes, id, "success")

\* A job has been reconciled as a success, all six calls made, the remote
\* job deleted.
C24_Witness ==
    /\ JobFinished
    /\ poll.branch = "success"
    /\ poll.raised = None
    /\ poll.calls = SuccessPath
    /\ azure[poll.pending.transcription_id].status = "Deleted"

(***************************************************************************)
(* C25                                                                     *)
(***************************************************************************)
\* C25: with the passes run one after the other, mark_pending is called
\* only for an episode that has no pending row at that moment, so no
\* pending row is ever replaced.  While a submitter handles an episode
\* every pending row is the row it was when the episode was taken up, but
\* for the new row of that episode; while the poller handles a job every
\* pending row is the row it was when the job was taken up, but for the row
\* of that job once remove_pending has been called.  A row keeps its handle
\* and its submitted_at, the time its job was created, all along.
C25_PendingNeverOverwritten ==
    /\ \A p \in SubmitterIds :
         LET s == sub[p] IN
         /\ s.pc = "mark_pending" => ~HasPending(pending_episodes, s.item)
         /\ "mark_pending" \in Range(s.calls) =>
              ~HasPending(s.pre.pending, s.item)
         /\ s.item # NoItem =>
              \A id \in Identities :
                \/ RowsOf(pending_episodes, id) = RowsOf(s.pre.pending, id)
                \/ /\ id = s.item
                   /\ s.log = "Submitted"
                   /\ RowsOf(s.pre.pending, id) = <<>>
                   /\ Len(RowsOf(pending_episodes, id)) = 1
                   /\ RowsOf(pending_episodes, id)[1].transcription_id
                        = s.transcription_id
    /\ poll.pending # NoPending =>
         \A id \in Identities :
           \/ RowsOf(pending_episodes, id) = RowsOf(poll.pre.pending, id)
           \/ /\ id = JobIdentity(poll.pending)
              /\ Returned("remove_pending")
              /\ RowsOf(pending_episodes, id) = <<>>
    /\ \A i \in 1..Len(pending_episodes) :
         LET r == pending_episodes[i] IN
         /\ r.transcription_id \in 1..Len(azure)
         /\ azure[r.transcription_id].item = <<r.episode_id, r.channel>>
         /\ r.submitted_at = r.transcription_id + 1

\* A submit pass has skipped an episode whose pending row, written for the
\* first job, is still there after a second job was created.
C25_Witness ==
    \E p \in SubmitterIds :
      LET s == sub[p] IN
      /\ EpisodeFinished(s)
      /\ s.log = "Skipping (pending)"
      /\ RowsOf(pending_episodes, s.item)[1].transcription_id = 1
      /\ RowsOf(pending_episodes, s.item)[1].submitted_at = 2
      /\ Len(azure) = 2

(***************************************************************************)
(* C26                                                                     *)
(***************************************************************************)
\* The episode is done: it has a processed row of status success and no
\* pending row.
Settled(id) ==
    /\ HasProcessed(processed_episodes, id, "success")
    /\ ~HasPending(pending_episodes, id)

\* C26: with the passes run one after the other, no step of any pass
\* changes the processed row of an episode that is done or gives it a
\* pending row: the episode stays done, with the same output path, ever
\* after.
C26_SuccessIsAbsorbing ==
    [][\A id \in Identities :
         Settled(id) =>
           /\ Settled(id)'
           /\ RowsOf(processed_episodes', id) = RowsOf(processed_episodes, id)]_vars

\* A submit pass has skipped an episode that is done while the job of
\* another episode is awaited.
C26_Witness ==
    \E p \in SubmitterIds :
      LET s == sub[p] IN
      /\ EpisodeFinished(s)
      /\ s.log = "Skipping (done)"
      /\ Settled(s.item)
      /\ \E i \in 1..Len(pending_episodes) :
           azure[pending_episodes[i].transcription_id].status = "Active"

(***************************************************************************)
(* C27                                                                     *)
(***************************************************************************)
\* C27: when passes of query.py are run again and again, the remote job
\* is at some time reported ended and the calls at some time stop raising,
\* every episode that has a pending row comes to have none and to have a
\* processed row: no pending row stays for ever.
C27_EventualResolution ==
    \A id \in Identities :
      HasPending(pending_episodes, id) ~>
        (~HasPending(pending_episodes, id) /\ RowsOf(processed_episodes, id) # <<>>)

\* A job that had not been seen ended when the pass took it up has been
\* resolved, after a call had raised.
C27_Witness ==
    /\ JobFinished
    /\ Returned("remove_pending")
    /\ faults = MaxFaults
    /\ poll.pre.azure[poll.pending.transcription_id].status = "Active"
    /\ RowsOf(processed_episodes, JobIdentity(poll.pending)) # <<>>

(***************************************************************************)
(* C28                                                                     *)
(***************************************************************************)
\* The store as a poll pass leaves it that wrote the processed row of a job
\* and did not get to remove its pending row: the episode has, in the
\* snapshot, a pending row and a processed row.
LeftHalfDone(pre, id) ==
    HasPending(pre.pending, id) /\ RowsOf(pre.processed, id) # <<>>

\* C28: an episode that a poll pass left with its processed row written and
\* its pending row not removed is not submitted again: a submit pass that
\* finds it so makes no create call for it and leaves both tables as they
\* are.  A later poll pass that goes through the job without an exception,
\* the job reporting the outcome already recorded, removes the pending row
\* and leaves exactly one processed row for the episode, of that outcome.
C28_HalfDoneReconciliationRecovers ==
    /\ \A p \in SubmitterIds :
         LET s == sub[p] IN
         (s.item # NoItem /\ LeftHalfDone(s.pre, s.item)) =>
           /\ "submit_transcription" \notin Range(s.calls)
           /\ s.pc \notin {"submit", "mark_pending"}
           /\ TablesAsBefore(s.pre)
    /\ \A status \in {"success", "failed"} :
         LET id == JobIdentity(poll.pending) IN
         ( /\ EndedIn(status)
           /\ LeftHalfDone(poll.pre, id)
           /\ HasProcessed(poll.pre.processed, id, status) ) =>
           /\ ~HasPending(pending_episodes, id)
           /\ Len(RowsOf(processed_episodes, id)) = 1
           /\ RowsOf(processed_episodes, id)[1].status = status

\* A job that an earlier pass had recorded as a success without removing
\* its pending row has been reconciled again: the episode is done.
C28_Witness ==
    /\ EndedIn("success")
    /\ LeftHalfDone(poll.pre, JobIdentity(poll.pending))
    /\ HasProcessed(poll.pre.processed, JobIdentity(poll.pending), "success")
    /\ poll.pre.azure[poll.pending.transcription_id].status = "Succeeded"
    /\ Settled(JobIdentity(poll.pending))

(***************************************************************************)
(* C29                                                                     *)
(***************************************************************************)
\* C29: however the calls of the poller and of concurrently running
\* submitters interleave, the remove_pending the poller makes while it
\* reconciles a job removes no pending row but the one that carries the
\* handle of that job: a row written for the same episode by a later
\* submission, with the handle of another job, stays.
C29_RemovesOnlyTheRowOfItsJob ==
    [][(poll.pc = "remove_pending" /\ poll' # poll) =>
         \A i \in 1..Len(pending_episodes) :
           pending_episodes[i] \notin Range(pending_episodes') =>
             pending_episodes[i].transcription_id
               = poll.pending.transcription_id]_vars

=============================================================================
